---------------------------- MODULE Spec2Model ----------------------------
(***************************************************************************)
(* A model of torch_mlu/profiler/_utils.py: class BasicEvaluation.         *)
(*                                                                         *)
(* The four passes of the class are modelled as four state machines over   *)
(* one set of variables, each with its own initial condition drawing the   *)
(* pass's input from bounded sets:                                         *)
(*   SpecSelfTime    compute_self_time()    over an event forest           *)
(*   SpecQueueDepth  compute_queue_depth()  over device and CPU events     *)
(*   SpecIdle        compute_idle_time()    after compute_queue_depth()    *)
(*   SpecRank        rank_events(length)    over a timeline and metrics    *)
(* Every loop iteration of the source is one action.                       *)
(***************************************************************************)
EXTENDS Integers, Sequences, FiniteSets, TLC

VARIABLES
    \* ---- compute_self_time
    tree,           \* the event forest: [n, parent, id, dur]
    stack,          \* the deque of line 49, as a sequence of nodes
    metrics,        \* self.metrics: event id -> EventMetrics record
    st_pc,          \* "run" | "done" | "abort" (the assert of line 58)
    \* ---- compute_queue_depth
    qd_in,          \* the pass's input: device events, CPU events
    qd,             \* the pass's local variables and its result
    \* ---- compute_idle_time
    idl,            \* the pass's local variables and its result
    \* ---- rank_events
    rank_in,        \* the pass's input: queue_depth_list, metrics, length
    rk              \* the pass's local variables and its result

vars == << tree, stack, metrics, st_pc, qd_in, qd, idl, rank_in, rk >>

selfTimeVars == << tree, stack, metrics, st_pc >>
queueDepthVars == << qd_in, qd >>
idleVars == << idl >>
rankVars == << rank_in, rk >>

\* What a pass's variables hold in the specifications of the other passes.
Unused == [pc |-> "unused"]

(***************************************************************************)
(* Generic helpers on sequences.                                           *)
(***************************************************************************)
Last(s) == s[Len(s)]
Front(s) == SubSeq(s, 1, Len(s) - 1)

RECURSIVE Reverse(_)
Reverse(s) == IF s = << >> THEN << >> ELSE Append(Reverse(Tail(s)), Head(s))

RECURSIVE SumSeq(_)
SumSeq(s) == IF s = << >> THEN 0 ELSE Head(s) + SumSeq(Tail(s))

Max2(a, b) == IF a >= b THEN a ELSE b
Min2(a, b) == IF a <= b THEN a ELSE b

(***************************************************************************)
(* compute_self_time  (lines 44-64)                                        *)
(***************************************************************************)
\* Bound: the number of events of the forest.
MaxNodes == 3

\* Sample duration_time_ns values (30 and 100: the documented scenario).
Durations == {0, 30, 100}

\* The forests of at most MaxNodes events.  Event k's parent is an earlier
\* event or 0 (a root); its identity is any of 1..k, so that every pattern of
\* equal identities occurs, and all-distinct identities too.
RECURSIVE BelowIndex(_, _)
BelowIndex(n, lo) ==
    IF n = 0 THEN { << >> }
    ELSE { Append(f, x) : f \in BelowIndex(n - 1, lo), x \in lo..(n - 1 + lo) }

Forests(n) ==
    { [n |-> n, parent |-> p, id |-> i, dur |-> d] :
        p \in BelowIndex(n, 0),
        i \in BelowIndex(n, 1),
        d \in [1..n -> Durations] }

\* x.children as a list (in the tree builder's order), for x = 0 the roots:
\* experimental_event_tree().
RECURSIVE ChildrenFrom(_, _, _)
ChildrenFrom(t, x, k) ==
    IF k > t.n THEN << >>
    ELSE IF t.parent[k] = x THEN << k >> \o ChildrenFrom(t, x, k + 1)
    ELSE ChildrenFrom(t, x, k + 1)

children(t, x) == ChildrenFrom(t, x, 1)

\* A mutant of SelfTimeOf: the time of all descendants is subtracted.
RECURSIVE SubtreeDur(_, _)
SubtreeDur(t, x) ==
    t.dur[x] + SumSeq([k \in 1..Len(children(t, x)) |-> SubtreeDur(t, children(t, x)[k])])

SelfTimeOfDescendants(t, x) ==
    t.dur[x] - SumSeq([k \in 1..Len(children(t, x)) |-> SubtreeDur(t, children(t, x)[k])])

\* Lines 54-57: self_time = duration - the durations of the direct children.
SelfTimeOf(t, x) ==
    t.dur[x] - SumSeq([k \in 1..Len(children(t, x)) |-> t.dur[children(t, x)[k]]])

\* EventMetrics(self_time_ns=self_time), then duration_time_ns is set
\* (lines 61-64); the other fields keep the dataclass defaults.
EventMetrics(self_time, duration) ==
    [self_time_ns |-> self_time, duration_time_ns |-> duration,
     idle_time_ns |-> 0, queue_depth |-> 0]

\* A mutant of RecordMetrics: a record already stored is overwritten.
RecordMetricsOverwrite(m, key, rec) ==
    [ok |-> TRUE,
     metrics |-> [k \in DOMAIN m \cup {key} |-> IF k = key THEN rec ELSE m[k]]]

\* Lines 58-64: the assert, then the store.  The result is the new mapping and
\* whether the assert held.
RecordMetrics(m, key, rec) ==
    IF key \in DOMAIN m
    THEN [ok |-> FALSE, metrics |-> m]
    ELSE [ok |-> TRUE,
          metrics |-> [k \in DOMAIN m \cup {key} |-> IF k = key THEN rec ELSE m[k]]]

EmptyMetrics == [k \in {} |-> 0]

InitSelfTime ==
    /\ \E n \in 0..MaxNodes : tree \in Forests(n)
    /\ stack = children(tree, 0)
    /\ metrics = EmptyMetrics
    /\ st_pc = IF children(tree, 0) = << >> THEN "done" ELSE "run"
    /\ qd_in = Unused /\ qd = Unused
    /\ idl = Unused
    /\ rank_in = Unused /\ rk = Unused

\* One iteration of the loop of lines 52-64.
compute_self_time ==
    /\ st_pc = "run"
    /\ stack # << >>
    /\ LET curr_event == Last(stack)
           pushed == Front(stack) \o children(tree, curr_event)
           r == RecordMetrics(metrics, tree.id[curr_event],
                              EventMetrics(SelfTimeOf(tree, curr_event),
                                           tree.dur[curr_event]))
       IN /\ stack' = pushed
          /\ metrics' = (IF r.ok THEN r.metrics ELSE metrics)
          /\ st_pc' = (IF ~r.ok THEN "abort"
                       ELSE IF pushed = << >> THEN "done" ELSE "run")
    /\ UNCHANGED << tree, queueDepthVars, idleVars, rankVars >>

NextSelfTime == compute_self_time

SpecSelfTime == InitSelfTime /\ [][NextSelfTime]_vars

(***************************************************************************)
(* Properties of compute_self_time.                                        *)
(***************************************************************************)
RECURSIVE SumDur(_, _)
SumDur(t, S) ==
    IF S = {} THEN 0
    ELSE LET k == CHOOSE k \in S : TRUE IN t.dur[k] + SumDur(t, S \ {k})

DirectChildren(t, x) == { k \in 1..t.n : t.parent[k] = x }

DistinctIds(t) == \A a, b \in 1..t.n : t.id[a] = t.id[b] => a = b

\* C1: after compute_self_time() on a forest with distinct identities, every
\* event e has a metrics record with duration_time_ns = e.duration_time_ns
\* and self_time_ns = e.duration_time_ns minus the durations of e's direct
\* children only.
C1_SelfTime ==
    (st_pc = "done" /\ DistinctIds(tree)) =>
        \A x \in 1..tree.n :
            /\ tree.id[x] \in DOMAIN metrics
            /\ metrics[tree.id[x]].duration_time_ns = tree.dur[x]
            /\ metrics[tree.id[x]].self_time_ns =
                   tree.dur[x] - SumDur(tree, DirectChildren(tree, x))

\* A root of 100ns with a child of 30ns that has a child of 30ns itself: the
\* root's self time is 70, the grandchild is not subtracted.
C1_Witness ==
    /\ st_pc = "done"
    /\ tree.n = 3
    /\ tree.parent = << 0, 1, 2 >>
    /\ tree.dur = << 100, 30, 30 >>
    /\ metrics[tree.id[1]].self_time_ns = 70

\* C6: compute_self_time() records every event exactly once: a record once
\* stored is never overwritten, reaching an identity that already has a
\* record aborts the pass before anything is written, and a pass that
\* completes leaves exactly the forest's identities as keys, one per event.
C6_RecordedOnce ==
    /\ [][/\ \A k \in DOMAIN metrics :
                k \in DOMAIN metrics' /\ metrics'[k] = metrics[k]
          /\ Cardinality(DOMAIN metrics') <= Cardinality(DOMAIN metrics) + 1
          /\ (st_pc = "run" /\ tree.id[Last(stack)] \in DOMAIN metrics)
                => (st_pc' = "abort" /\ metrics' = metrics)]_vars
    /\ [](st_pc = "done" =>
            /\ DOMAIN metrics = { tree.id[x] : x \in 1..tree.n }
            /\ Cardinality(DOMAIN metrics) = tree.n)
    /\ [](st_pc = "abort" => ~DistinctIds(tree))

\* The pass aborted on a duplicate identity with a record already stored.
C6_Witness ==
    /\ st_pc = "abort"
    /\ tree.n = 3
    /\ Cardinality(DOMAIN metrics) = 2

(***************************************************************************)
(* compute_queue_depth  (lines 66-144)                                     *)
(***************************************************************************)
\* Bound: the number of events (device and CPU) of a trace.
MaxEvents == 4

\* Correlation ids: enough for every launch of a trace to have its own kernel.
CorrIds == 1..(MaxEvents \div 2)

\* Sample durations in microseconds: a launch is short, a kernel longer.
DurationUsOf(name) == IF name \in {"kernel", "memcpy"} THEN 2 ELSE 1

\* Python's None, as index_of_first_match and argmax return it.
NoIndex == -2

\* The shapes of event of a trace: a runtime call launching a kernel, a
\* kernel on the device, a memory copy on the device, and an event of the CPU
\* tree (a key of self.metrics).
EventShapes ==
    [name : {"cnInvokeKernel"}, device_type : {"CPU"}, corr : CorrIds]
    \cup [name : {"kernel"}, device_type : {"MLU"}, corr : CorrIds]
    \cup [name : {"memcpy"}, device_type : {"MLU"}, corr : {0}]
    \cup [name : {"cpu_op"}, device_type : {"tree"}, corr : {0}]

\* A trace in time order: each event starts with the previous one (gap 0) or
\* one microsecond later (gap 1).
TimelinesOf(shapes, n) ==
    { tl \in [1..n -> shapes \X {0, 1}] : n > 0 => tl[1][2] = 1 }

StartUsOf(tl, k) == SumSeq([j \in 1..k |-> tl[j][2]])

\* Event k of a timeline: a _KinetoEvent (start_us, duration_us) or an event of
\* the CPU tree (start_time_ns, end_time_ns).
EventOf(tl, k) ==
    IF tl[k][1].device_type = "tree"
    THEN [uid |-> k, name |-> tl[k][1].name,
          start_time_ns |-> StartUsOf(tl, k) * 1000,
          end_time_ns |-> (StartUsOf(tl, k) + DurationUsOf(tl[k][1].name)) * 1000]
    ELSE [uid |-> k, name |-> tl[k][1].name, device_type |-> tl[k][1].device_type,
          corr |-> tl[k][1].corr,
          start_us |-> StartUsOf(tl, k),
          duration_us |-> DurationUsOf(tl[k][1].name)]

IsTreeEvent(e) == "start_time_ns" \in DOMAIN e
IsDeviceEvent(e) == "start_us" \in DOMAIN e

\* Line 77.
is_mlu_launch_kernel(e) == e.name = "cnInvokeKernel"

\* Line 81: "mem" not in e.name.lower().
is_mlu_kernel(e) == e.device_type = "MLU" /\ e.name \notin {"memcpy"}

\* sorted(..., key=lambda x: x.start_us()): a stable sort.
RECURSIVE InsertByStartUs(_, _)
InsertByStartUs(t, x) ==
    IF t = << >> \/ Last(t).start_us <= x.start_us THEN Append(t, x)
    ELSE Append(InsertByStartUs(Front(t), x), Last(t))

RECURSIVE SortByStartUs(_)
SortByStartUs(s) ==
    IF s = << >> THEN << >> ELSE InsertByStartUs(SortByStartUs(Front(s)), Last(s))

\* A mutant of new_old_event_comparator: microseconds are not converted.
new_old_event_comparator_us(event) ==
    IF IsDeviceEvent(event) THEN event.start_us ELSE event.start_time_ns

\* Lines 109-114.
new_old_event_comparator(event) ==
    IF IsDeviceEvent(event) THEN event.start_us * 1000 ELSE event.start_time_ns

\* all_events.sort(key=new_old_event_comparator): a stable sort.
RECURSIVE InsertByComparator(_, _)
InsertByComparator(t, x) ==
    IF t = << >> \/ new_old_event_comparator(Last(t)) <= new_old_event_comparator(x)
    THEN Append(t, x)
    ELSE Append(InsertByComparator(Front(t), x), Last(t))

RECURSIVE SortByComparator(_)
SortByComparator(s) ==
    IF s = << >> THEN << >>
    ELSE InsertByComparator(SortByComparator(Front(s)), Last(s))

\* Lines 83-85 and 86-88.
mlu_launch_events(in) == SortByStartUs(SelectSeq(in.mlu_event_list, is_mlu_launch_kernel))
mlu_kernel_events(in) == SortByStartUs(SelectSeq(in.mlu_event_list, is_mlu_kernel))

\* Lines 107 and 117.
all_events(in) ==
    SortByComparator(mlu_launch_events(in) \o mlu_kernel_events(in) \o in.events)

\* A mutant of index_of_first_match: the search ignores its start.
index_of_first_match_from_0(hits, start) ==
    LET found == { i \in 0..(Len(hits) - 1) : hits[i + 1] }
    IN IF found = {} THEN NoIndex ELSE CHOOSE i \in found : \A j \in found : i <= j

\* torch.profiler._utils.index_of_first_match(seq, predicate, start), with
\* hits[i + 1] the value of predicate(seq[i]): the first index at or after
\* start where the predicate holds, or None.
index_of_first_match(hits, start) ==
    LET found == { i \in start..(Len(hits) - 1) : hits[i + 1] }
    IN IF found = {} THEN NoIndex ELSE CHOOSE i \in found : \A j \in found : i <= j

\* Lines 96-100.
MatchKernel(kernels, launch, last) ==
    index_of_first_match([k \in 1..Len(kernels) |-> kernels[k].corr = launch.corr], last)

\* Line 102.
NextLastMapped(index, last) == IF index # NoIndex THEN index ELSE last

\* A mutant of NextSpawned: the mapping is stored whatever it is.
NextSpawnedAlways(event, mapping, spawned) ==
    IF IsDeviceEvent(event) /\ event.uid \in DOMAIN mapping
    THEN (IF mapping[event.uid] = NoIndex THEN spawned + 1 ELSE mapping[event.uid])
    ELSE spawned

\* Lines 124-126.
NextSpawned(event, mapping, spawned) ==
    IF IsDeviceEvent(event) /\ event.uid \in DOMAIN mapping
                            /\ mapping[event.uid] # NoIndex
    THEN mapping[event.uid]
    ELSE spawned

\* Lines 131-134.
RECURSIVE AdvanceKernelIndex(_, _, _)
AdvanceKernelIndex(kernels, current, start_time) ==
    IF current < Len(kernels) /\ kernels[current + 1].start_us * 1000 <= start_time
    THEN AdvanceKernelIndex(kernels, current + 1, start_time)
    ELSE current

\* A mutant of QueueDepth: the depth is not clamped.
QueueDepthUnclamped(spawned, current) == spawned - current + 1

\* Lines 135-136.
QueueDepth(spawned, current) == Max2(spawned - current + 1, 0)

Interval(start, end, queue_depth) ==
    [start |-> start, end |-> end, queue_depth |-> queue_depth]

\* The inputs of the pass.  kineto_results.events() lists the device events
\* latest first (the sorts of lines 83-91 are stable, so that every order of
\* the events that start together occurs); self.events is sorted by
\* start_time_ns (lines 37-39).
TraceOf(tl) ==
    [mlu_event_list |->
         Reverse(SelectSeq([k \in 1..Len(tl) |-> EventOf(tl, k)], IsDeviceEvent)),
     events |-> SelectSeq([k \in 1..Len(tl) |-> EventOf(tl, k)], IsTreeEvent)]

\* The traces of n events.
QueueDepthInputs(n) == { TraceOf(tl) : tl \in TimelinesOf(EventShapes, n) }

\* The pass at its first loop: lines 72-94 and 104-117.
QueueDepthStart(in) ==
    [pc |-> IF mlu_launch_events(in) # << >> THEN "map"
            ELSE IF all_events(in) # << >> THEN "sweep" ELSE "done",
     mlu_launch_events |-> mlu_launch_events(in),
     mlu_kernel_events |-> mlu_kernel_events(in),
     all_events |-> all_events(in),
     li |-> 0,
     kernel_mapping |-> EmptyMetrics,
     last_mapped_kernel |-> 0,
     ei |-> 0,
     current_kernel_index |-> 0,
     spawned_kernel_index |-> -1,
     queue_depth_list |-> << >>,
     queue_depth |-> [u \in { in.events[k].uid : k \in 1..Len(in.events) } |-> 0]]

InitQueueDepth ==
    /\ \E n \in 0..MaxEvents : qd_in \in QueueDepthInputs(n)
    /\ qd = QueueDepthStart(qd_in)
    /\ tree = Unused /\ stack = Unused /\ metrics = Unused /\ st_pc = "unused"
    /\ idl = Unused
    /\ rank_in = Unused /\ rk = Unused

\* One iteration of the loop of lines 95-102.
MapLaunch ==
    /\ qd.pc = "map"
    /\ LET launches == qd.mlu_launch_events
           mlu_launch_event == launches[qd.li + 1]
           index == MatchKernel(qd.mlu_kernel_events, mlu_launch_event,
                                qd.last_mapped_kernel)
       IN qd' = [qd EXCEPT
                   !.kernel_mapping =
                       [u \in DOMAIN qd.kernel_mapping \cup {mlu_launch_event.uid} |->
                           IF u = mlu_launch_event.uid THEN index
                           ELSE qd.kernel_mapping[u]],
                   !.last_mapped_kernel = NextLastMapped(index, qd.last_mapped_kernel),
                   !.li = qd.li + 1,
                   !.pc = IF qd.li + 1 = Len(launches) THEN "sweep" ELSE "map"]
    /\ UNCHANGED << qd_in, selfTimeVars, idleVars, rankVars >>

\* One iteration of the loop of lines 118-142.
SweepEvent ==
    /\ qd.pc = "sweep"
    /\ LET events == qd.all_events
           event == events[qd.ei + 1]
           start_time ==
               IF IsDeviceEvent(event) THEN event.start_us * 1000
               ELSE event.start_time_ns
           end_time ==
               IF IsDeviceEvent(event) THEN (event.start_us + event.duration_us) * 1000
               ELSE event.end_time_ns
           spawned == NextSpawned(event, qd.kernel_mapping, qd.spawned_kernel_index)
           current == AdvanceKernelIndex(qd.mlu_kernel_events,
                                         qd.current_kernel_index, start_time)
           current_queue_depth == QueueDepth(spawned, current)
       IN qd' = [qd EXCEPT
                   !.spawned_kernel_index = spawned,
                   !.current_kernel_index = current,
                   !.queue_depth_list =
                       IF IsDeviceEvent(event)
                       THEN Append(qd.queue_depth_list,
                                   Interval(start_time, end_time, current_queue_depth))
                       ELSE qd.queue_depth_list,
                   !.queue_depth =
                       IF IsDeviceEvent(event) THEN qd.queue_depth
                       ELSE [qd.queue_depth EXCEPT ![event.uid] = current_queue_depth],
                   !.ei = qd.ei + 1,
                   !.pc = IF qd.ei + 1 = Len(events) THEN "done" ELSE "sweep"]
    /\ UNCHANGED << qd_in, selfTimeVars, idleVars, rankVars >>

NextQueueDepth == MapLaunch \/ SweepEvent

SpecQueueDepth == InitQueueDepth /\ [][NextQueueDepth]_vars

(***************************************************************************)
(* Properties of compute_queue_depth.                                      *)
(***************************************************************************)
\* The number of events of a list that start at or before t nanoseconds.
StartedBy(list, t) ==
    Cardinality({ k \in 1..Len(list) : list[k].start_us * 1000 <= t })

\* The events of all_events that the sweep has passed.
Swept == { qd.all_events[k] : k \in 1..qd.ei }

\* C2: every queue depth compute_queue_depth() produces is >= 0: the depth of
\* every Interval of queue_depth_list and the queue_depth of every CPU event.
C2_DepthNonNegative ==
    /\ \A k \in 1..Len(qd.queue_depth_list) : qd.queue_depth_list[k].queue_depth >= 0
    /\ \A u \in DOMAIN qd.queue_depth : qd.queue_depth[u] >= 0

\* A kernel started before anything was launched, so that the difference of
\* the two cursors is negative, and a launch stayed unmatched.
C2_Witness ==
    /\ qd.pc = "done"
    /\ qd.spawned_kernel_index - qd.current_kernel_index + 1 < 0
    /\ \E u \in DOMAIN qd.kernel_mapping : qd.kernel_mapping[u] = NoIndex
    /\ qd.queue_depth_list # << >>
    /\ DOMAIN qd.queue_depth # {}

\* Launches and kernels correspond one-to-one through distinct correlation
\* ids, kernels start in the order of their launches, each strictly after its
\* launch, and all start times are distinct.
WellPaired ==
    LET L == qd.mlu_launch_events
        K == qd.mlu_kernel_events
        D == L \o K
    IN /\ Len(L) = Len(K)
       /\ \A a, b \in 1..Len(L) : L[a].corr = L[b].corr => a = b
       /\ \A a, b \in 1..Len(K) : K[a].corr = K[b].corr => a = b
       /\ \A a \in 1..Len(L) : \E b \in 1..Len(K) :
             /\ K[b].corr = L[a].corr
             /\ K[b].start_us > L[a].start_us
       /\ \A a, b \in 1..Len(L) : \A c, d \in 1..Len(K) :
             (K[c].corr = L[a].corr /\ K[d].corr = L[b].corr
                 /\ L[a].start_us < L[b].start_us) => K[c].start_us < K[d].start_us
       /\ \A a, b \in 1..Len(D) : D[a].start_us = D[b].start_us => a = b

\* C3: in a well-paired trace the depth of every swept event is the number
\* of launches started at or before it minus the number of kernels started
\* at or before it.
C3_DepthIsLaunchedNotStarted ==
    WellPaired =>
        /\ \A k \in 1..Len(qd.queue_depth_list) :
              qd.queue_depth_list[k].queue_depth =
                  StartedBy(qd.mlu_launch_events, qd.queue_depth_list[k].start)
                  - StartedBy(qd.mlu_kernel_events, qd.queue_depth_list[k].start)
        /\ \A e \in Swept :
              IsTreeEvent(e) =>
                  qd.queue_depth[e.uid] =
                      StartedBy(qd.mlu_launch_events, e.start_time_ns)
                      - StartedBy(qd.mlu_kernel_events, e.start_time_ns)

\* Two launches, then their two kernels: the depths are 1, 2, 1, 0.
C3_Witness ==
    /\ WellPaired
    /\ qd.pc = "done"
    /\ Len(qd.queue_depth_list) = 4
    /\ [k \in 1..4 |-> qd.queue_depth_list[k].queue_depth] = << 1, 2, 1, 0 >>

\* One launch and its kernel, and a CPU event in between: depth 1, 1, 0.
C3_WitnessScenario ==
    /\ WellPaired
    /\ qd.pc = "done"
    /\ Len(qd.queue_depth_list) = 2
    /\ [k \in 1..2 |-> qd.queue_depth_list[k].queue_depth] = << 1, 0 >>
    /\ \E u \in DOMAIN qd.queue_depth : qd.queue_depth[u] = 1

\* C5: a launch whose correlation id matches no kernel at or after the
\* cursor is mapped to None and leaves last_mapped_kernel unchanged; when
\* the sweep reaches it, spawned_kernel_index is unchanged and the depth
\* recorded is the one of a non-launch event at that time.
C5_UnmatchedLaunch ==
    [][/\ qd.pc = "map" =>
            LET launch == qd.mlu_launch_events[qd.li + 1]
                K == qd.mlu_kernel_events
            IN (\A i \in qd.last_mapped_kernel..(Len(K) - 1) :
                    K[i + 1].corr # launch.corr)
               => /\ qd'.kernel_mapping[launch.uid] = NoIndex
                  /\ qd'.last_mapped_kernel = qd.last_mapped_kernel
       /\ qd.pc = "sweep" =>
            LET event == qd.all_events[qd.ei + 1]
            IN (/\ IsDeviceEvent(event)
                /\ is_mlu_launch_kernel(event)
                /\ qd.kernel_mapping[event.uid] = NoIndex)
               => /\ qd'.spawned_kernel_index = qd.spawned_kernel_index
                  /\ Last(qd'.queue_depth_list).start = event.start_us * 1000
                  /\ Last(qd'.queue_depth_list).queue_depth =
                         Max2(0, qd.spawned_kernel_index
                                 - StartedBy(qd.mlu_kernel_events, event.start_us * 1000)
                                 + 1)]_vars

\* A matched launch, then an unmatched one before the first kernel starts:
\* the unmatched launch is recorded with the depth 1 of the first.
C5_Witness ==
    /\ qd.ei >= 2
    /\ Len(qd.queue_depth_list) >= 2
    /\ IsDeviceEvent(qd.all_events[2])
    /\ is_mlu_launch_kernel(qd.all_events[2])
    /\ qd.kernel_mapping[qd.all_events[2].uid] = NoIndex
    /\ qd.queue_depth_list[2].queue_depth = 1
    /\ \E k \in 1..Len(qd.mlu_kernel_events) :
          qd.mlu_kernel_events[k].corr = qd.all_events[2].corr

\* The launches mapped so far, in the order of the loop, with their indices.
Resolved ==
    { k \in 1..qd.li : qd.kernel_mapping[qd.mlu_launch_events[k].uid] # NoIndex }

MappedIndex(k) == qd.kernel_mapping[qd.mlu_launch_events[k].uid]

\* C9: the cursor never moves backward: the resolved kernel indices are
\* non-decreasing in the order of the launches, the cursor is the index
\* matched last, and each launch is mapped to the first kernel at or after
\* the cursor with its correlation id, never to one before the cursor.
C9_CursorForwardOnly ==
    /\ [][qd.pc = "map" =>
            LET launch == qd.mlu_launch_events[qd.li + 1]
                K == qd.mlu_kernel_events
                prev == qd.last_mapped_kernel
                idx == qd'.kernel_mapping[launch.uid]
            IN /\ qd'.last_mapped_kernel >= prev
               /\ idx # NoIndex =>
                     /\ idx >= prev
                     /\ K[idx + 1].corr = launch.corr
                     /\ \A i \in prev..(idx - 1) : K[i + 1].corr # launch.corr
               /\ idx = NoIndex =>
                     \A i \in prev..(Len(K) - 1) : K[i + 1].corr # launch.corr]_vars
    /\ [](qd.pc \in {"map", "sweep", "done"} =>
            /\ \A a, b \in Resolved : a <= b => MappedIndex(a) <= MappedIndex(b)
            /\ qd.last_mapped_kernel =
                  IF Resolved = {} THEN 0
                  ELSE MappedIndex(CHOOSE a \in Resolved : \A b \in Resolved : b <= a))

\* A launch stayed unmapped although a kernel with its correlation id exists
\* before the cursor.
C9_Witness ==
    \E k \in 1..qd.li :
        /\ MappedIndex(k) = NoIndex
        /\ \E i \in 0..(qd.last_mapped_kernel - 1) :
              qd.mlu_kernel_events[i + 1].corr = qd.mlu_launch_events[k].corr

(***************************************************************************)
(* compute_idle_time  (lines 146-173), run after compute_queue_depth as    *)
(* __init__ does (lines 41-42).                                            *)
(***************************************************************************)
\* Interval(start, end): queue_depth keeps the dataclass default.
IdleInterval(start, end) == Interval(start, end, 0)

\* Lines 154-160: the two boundary intervals.
SeedIntervals(queue_depth_list, events) ==
    IF queue_depth_list # << >> /\ events # << >>
    THEN << IdleInterval(events[1].start_time_ns, queue_depth_list[1].start),
            IdleInterval(Last(queue_depth_list).end, Last(events).end_time_ns) >>
    ELSE << >>

\* A mutant of IdleStartOf: the idle time starts with the data point.
IdleStartOfStart(data_point) == data_point.start

\* Line 164.
IdleStartOf(data_point) == data_point.end

\* Lines 163-168: the body of the loop over queue_depth_list.
ScanPoint(st, data_point) ==
    LET s1 == IF data_point.queue_depth = 0 /\ ~st.idle
              THEN [st EXCEPT !.idle_start = IdleStartOf(data_point), !.idle = TRUE]
              ELSE st
    IN IF data_point.queue_depth > 0 /\ s1.idle
       THEN [s1 EXCEPT !.idle_intervals =
                          Append(s1.idle_intervals,
                                 IdleInterval(s1.idle_start, data_point.start)),
                       !.idle = FALSE]
       ELSE s1

\* EventKey.intervals_overlap(intervals): the nanoseconds of [start, end) that
\* lie in the union of the intervals.
IntervalsOverlap(start, end, intervals) ==
    LET pts == { p \in { intervals[k].start : k \in 1..Len(intervals) }
                       \cup { intervals[k].end : k \in 1..Len(intervals) }
                       \cup { start } :
                 start <= p /\ p < end }
        next(p) == IF \E q \in pts : q > p
                   THEN CHOOSE q \in pts : q > p /\ \A r \in pts : r > p => q <= r
                   ELSE end
        covered(p) == \E k \in 1..Len(intervals) :
                          intervals[k].start <= p /\ p < intervals[k].end
        RECURSIVE Total(_)
        Total(S) == IF S = {} THEN 0
                    ELSE LET p == CHOOSE p \in S : TRUE
                         IN (IF covered(p) THEN next(p) - p ELSE 0) + Total(S \ {p})
    IN IF start < end THEN Total(pts) ELSE 0

\* The traces of n events, without memory copies.
IdleInputs(n) ==
    { TraceOf(tl) : tl \in TimelinesOf({ sh \in EventShapes : sh.name # "memcpy" }, n) }

InitIdle ==
    /\ \E n \in 0..MaxEvents : qd_in \in IdleInputs(n)
    /\ qd = QueueDepthStart(qd_in)
    /\ idl = [pc |-> "wait"]
    /\ tree = Unused /\ stack = Unused /\ metrics = Unused /\ st_pc = "unused"
    /\ rank_in = Unused /\ rk = Unused

\* Lines 151-160.
IdleBegin ==
    /\ qd.pc = "done"
    /\ idl.pc = "wait"
    /\ idl' = [pc |-> IF qd.queue_depth_list = << >> THEN "attribute" ELSE "scan",
               idle |-> FALSE,
               idle_start |-> 0,
               idle_intervals |-> SeedIntervals(qd.queue_depth_list, qd_in.events),
               di |-> 0,
               idle_time_ns |-> [u \in DOMAIN qd.queue_depth |-> 0]]
    /\ UNCHANGED << qd_in, qd, selfTimeVars, rankVars >>

\* One iteration of the loop of lines 162-168.
IdleScan ==
    /\ idl.pc = "scan"
    /\ LET st == ScanPoint(idl, qd.queue_depth_list[idl.di + 1])
       IN idl' = [st EXCEPT !.di = idl.di + 1,
                            !.pc = IF idl.di + 1 = Len(qd.queue_depth_list)
                                   THEN "attribute" ELSE "scan"]
    /\ UNCHANGED << qd_in, qd, selfTimeVars, rankVars >>

\* Lines 170-173.
IdleAttribute ==
    /\ idl.pc = "attribute"
    /\ idl' = [idl EXCEPT
                 !.idle_time_ns =
                     [u \in DOMAIN idl.idle_time_ns |->
                         LET e == CHOOSE e \in { qd_in.events[k] : k \in 1..Len(qd_in.events) } :
                                      e.uid = u
                         IN IntervalsOverlap(e.start_time_ns, e.end_time_ns,
                                             idl.idle_intervals)],
                 !.pc = "done"]
    /\ UNCHANGED << qd_in, qd, selfTimeVars, rankVars >>

NextIdle == MapLaunch \/ SweepEvent \/ IdleBegin \/ IdleScan \/ IdleAttribute

SpecIdle == InitIdle /\ [][NextIdle]_vars

(***************************************************************************)
(* Properties of compute_idle_time.                                        *)
(***************************************************************************)
\* Two intervals, as the spans [start, end), share a point.
Overlaps(a, b) == Max2(a.start, b.start) < Min2(a.end, b.end)

PairwiseDisjoint(intervals) ==
    \A a, b \in 1..Len(intervals) : a < b => ~Overlaps(intervals[a], intervals[b])

Contains(iv, t) == iv.start <= t /\ t < iv.end

\* The idle intervals the scan appended after the boundary intervals.
ScanIntervals ==
    SubSeq(idl.idle_intervals,
           Len(SeedIntervals(qd.queue_depth_list, qd_in.events)) + 1,
           Len(idl.idle_intervals))

DepthAt(k) == qd.queue_depth_list[k].queue_depth

\* The data points that start a run of depth 0 which a point of depth > 0 ends.
RunStarts ==
    { a \in 1..Len(qd.queue_depth_list) :
        /\ DepthAt(a) = 0
        /\ (a = 1 \/ DepthAt(a - 1) > 0)
        /\ \E c \in (a + 1)..Len(qd.queue_depth_list) : DepthAt(c) > 0 }

\* The first data point of depth > 0 after a.
RunEnd(a) ==
    CHOOSE c \in (a + 1)..Len(qd.queue_depth_list) :
        DepthAt(c) > 0 /\ \A d \in (a + 1)..(c - 1) : DepthAt(d) = 0

\* The j-th run, in the order of the list.
NthRun(j) == CHOOSE a \in RunStarts : Cardinality({ b \in RunStarts : b <= a }) = j

\* The time, in steps of a microsecond, that the device timeline spans.
TimelinePoints ==
    { t \in { 1000 * k : k \in 0..(MaxEvents + 3) } :
        \E k \in 1..Len(qd.queue_depth_list) : Contains(qd.queue_depth_list[k], t) }

\* C4 as stated: the idle intervals are pairwise disjoint and, with the spans
\* of depth > 0, cover the device timeline; a run of depth 0 yields one idle
\* interval from the start of the run to the next point of depth > 0.
C4_AsStated ==
    idl.pc = "done" =>
        /\ PairwiseDisjoint(idl.idle_intervals)
        /\ \A t \in TimelinePoints :
              \/ \E k \in 1..Len(idl.idle_intervals) : Contains(idl.idle_intervals[k], t)
              \/ \E k \in 1..Len(qd.queue_depth_list) :
                    DepthAt(k) > 0 /\ Contains(qd.queue_depth_list[k], t)
        /\ Len(ScanIntervals) = Cardinality(RunStarts)
        /\ \A j \in 1..Len(ScanIntervals) :
              ScanIntervals[j] =
                  IdleInterval(qd.queue_depth_list[NthRun(j)].start,
                               qd.queue_depth_list[RunEnd(NthRun(j))].start)

\* C4, amended: the idle intervals are pairwise disjoint; every run of
\* consecutive depth 0 intervals that an interval of depth > 0 ends yields
\* one idle interval, from the END of the run's first interval to the start
\* of the interval of depth > 0, and nothing else is appended.
C4_IdleIntervals ==
    idl.pc \in {"attribute", "done"} =>
        /\ PairwiseDisjoint(idl.idle_intervals)
        /\ Len(ScanIntervals) = Cardinality(RunStarts)
        /\ \A j \in 1..Len(ScanIntervals) :
              ScanIntervals[j] =
                  IdleInterval(qd.queue_depth_list[NthRun(j)].end,
                               qd.queue_depth_list[RunEnd(NthRun(j))].start)

\* A run of two intervals of depth 0, ended by a launch of depth 1.
C4_Witness ==
    /\ idl.pc = "done"
    /\ Len(qd.queue_depth_list) >= 3
    /\ DepthAt(1) = 0 /\ DepthAt(2) = 0 /\ DepthAt(3) > 0
    /\ Len(ScanIntervals) = 1
    /\ ScanIntervals[1].start < ScanIntervals[1].end

(***************************************************************************)
(* rank_events  (lines 175-240)                                            *)
(***************************************************************************)
\* Bounds: the bursts of device work of a timeline, and the events ranked.
MaxBlocks == 2
MaxRankEvents == 3

\* Lines 190-191.
bottom_threashold == 0
top_threashold == 4

\* A timeline as compute_queue_depth() returns it is made of bursts: possibly
\* a launch that queues nothing (depth 0), then a launch that queues h
\* kernels (depth h), then the h kernels starting one by one (h-1, ..., 0).
BlockHeights == {1, 3, 4}
Blocks == [height : BlockHeights, lead : BOOLEAN]

BlockDepths(b) ==
    (IF b.lead THEN << 0 >> ELSE << >>)
    \o << b.height >> \o [k \in 1..b.height |-> b.height - k]

RECURSIVE Flatten(_)
Flatten(bs) == IF bs = << >> THEN << >> ELSE BlockDepths(Head(bs)) \o Flatten(Tail(bs))

\* The k-th event of the timeline starts at time k and lasts 1.
TimelineOf(depths) == [k \in 1..Len(depths) |-> Interval(k, k + 1, depths[k])]

\* The keys of self.metrics with their records: an event starts with the
\* timeline or after the sample bursts, and lasts 2.
RankEventShapes ==
    [start_time_ns : {1, 6}, self_time_ns : {1, 2}, idle_time_ns : {0, 1}]

RankEventOf(shapes, k) ==
    [uid |-> k,
     start_time_ns |-> shapes[k].start_time_ns,
     end_time_ns |-> shapes[k].start_time_ns + 2,
     duration_time_ns |-> 2,
     self_time_ns |-> shapes[k].self_time_ns,
     idle_time_ns |-> shapes[k].idle_time_ns]

RankEventsOf(shapes) == [k \in 1..Len(shapes) |-> RankEventOf(shapes, k)]

\* The inputs: long timelines with few events, short timelines with many.
RankInputs(nb, ne) ==
    { [queue_depth_list |-> TimelineOf(Flatten(bs)), events |-> RankEventsOf(es)] :
        bs \in [1..nb -> Blocks],
        es \in [1..ne -> RankEventShapes] }

\* Lines 187-188.
reversed_queue_depth_list(in) == Reverse(in.queue_depth_list)
qd_values(in) ==
    LET queue_depth_list == reversed_queue_depth_list(in)
    IN [k \in 1..Len(queue_depth_list) |-> queue_depth_list[k].queue_depth]

\* torch.profiler._utils.argmax(seq, start=start, end=end): the index of the
\* first greatest element of seq[start:end], or None for an empty slice.
argmax(seq, start, end) ==
    LET stop == IF end = NoIndex \/ end > Len(seq) THEN Len(seq) ELSE end
        idx == start..(stop - 1)
    IN IF idx = {} THEN NoIndex
       ELSE CHOOSE i \in idx :
                /\ \A j \in idx : seq[j + 1] <= seq[i + 1]
                /\ \A j \in idx : seq[j + 1] = seq[i + 1] => i <= j

\* Lines 201-203, for one j of the loop of line 198.
next_minimum_idx(values, j) ==
    index_of_first_match([k \in 1..Len(values) |-> values[k] <= bottom_threashold], j)

peak_idx(values, j) == argmax(values, j, next_minimum_idx(values, j))

\* Lines 206-207.
IsValidPeak(values, j) ==
    /\ peak_idx(values, j) # NoIndex
    /\ values[peak_idx(values, j) + 1] >= top_threashold

\* One iteration of the loop of lines 194-213, from position i: the new i and
\* the decrease intervals.
ScanFrom(in, i, decrease_interval) ==
    LET values == qd_values(in)
        queue_depth_list == reversed_queue_depth_list(in)
        js == { j \in (i + 1)..(Len(values) - 1) : IsValidPeak(values, j) }
    IN IF values[i + 1] > bottom_threashold
       THEN [i |-> i + 1, decrease_interval |-> decrease_interval]
       ELSE IF js = {}
       THEN [i |-> i + 1, decrease_interval |-> decrease_interval]
       ELSE LET j == CHOOSE j \in js : \A k \in js : j <= k
                nm == next_minimum_idx(values, j)
                pk == peak_idx(values, j)
            IN [i |-> (IF nm # NoIndex THEN nm ELSE i) + 1,
                decrease_interval |->
                    Append(decrease_interval,
                           IdleInterval(queue_depth_list[pk + 1].start,
                                        queue_depth_list[i + 1].start))]

\* Lines 215-218: event.intervals_overlap(decrease_interval) is not 0.
Survives(event, decrease_interval) ==
    IntervalsOverlap(event.start_time_ns, event.end_time_ns, decrease_interval) # 0

\* EventMetrics.fraction_idle_time, as << numerator, denominator >>.
fraction_idle_time(m) ==
    IF m.duration_time_ns = 0 THEN << 0, 1 >>
    ELSE << m.idle_time_ns, m.duration_time_ns >>

RECURSIVE Product(_)
Product(s) == IF s = << >> THEN 1 ELSE Head(s) * Product(Tail(s))

\* The idle fractions of the list, over their common denominator.
IdleScaled(list) ==
    LET den == Product([k \in 1..Len(list) |-> fraction_idle_time(list[k])[2]])
    IN [k \in 1..Len(list) |->
           fraction_idle_time(list[k])[1] * (den \div fraction_idle_time(list[k])[2])]

\* x - mean(x), times the number of elements.
Centered(x) == [k \in 1..Len(x) |-> Len(x) * x[k] - SumSeq(x)]

SumSquares(x) == SumSeq([k \in 1..Len(x) |-> x[k] * x[k]])

\* Lines 226-229: torch.std of fewer than two elements is nan, and of equal
\* elements 0, so that every quotient is nan, and every score with it.
ScoresAreNan(list) ==
    \/ Len(list) <= 1
    \/ SumSquares(Centered(IdleScaled(list))) = 0
    \/ SumSquares(Centered([k \in 1..Len(list) |-> list[k].self_time_ns])) = 0

\* Lines 226-230: heuristic_score_list[a] < heuristic_score_list[b], in exact
\* arithmetic.  With A and B the centered idle fractions and self times, the
\* score of k is proportional to A[k] / sqrt(sum A^2) + 0.6 B[k] / sqrt(sum B^2).
ScoreLess(list, a, b) ==
    LET A == Centered(IdleScaled(list))
        B == Centered([k \in 1..Len(list) |-> list[k].self_time_ns])
        x == 5 * (A[a] - A[b])
        y == 3 * (B[a] - B[b])
        X == x * x * SumSquares(B)
        Y == y * y * SumSquares(A)
    IN /\ ~ScoresAreNan(list)
       /\ IF x <= 0 /\ y <= 0 THEN x < 0 \/ y < 0
          ELSE IF x >= 0 /\ y >= 0 THEN FALSE
          ELSE IF x < 0 THEN X > Y
          ELSE Y > X

\* A mutant of SortedByScore: reverse=True is missing.
RECURSIVE InsertAscending(_, _, _)
InsertAscending(list, t, a) ==
    IF t = << >> \/ ~ScoreLess(list, a, Last(t)) THEN Append(t, a)
    ELSE Append(InsertAscending(list, Front(t), a), Last(t))

RECURSIVE SortAscending(_, _)
SortAscending(list, n) ==
    IF n = 0 THEN << >> ELSE InsertAscending(list, SortAscending(list, n - 1), n)

SortedByScoreAscending(list) ==
    LET order == SortAscending(list, Len(list))
    IN [k \in 1..Len(list) |-> list[order[k]]]

\* Lines 233-238: sorted(zip(scores, events), key=score, reverse=True), a
\* stable sort: an element goes behind all that are not less than it.
RECURSIVE InsertDescending(_, _, _)
InsertDescending(list, t, a) ==
    IF t = << >> \/ ~ScoreLess(list, Last(t), a) THEN Append(t, a)
    ELSE Append(InsertDescending(list, Front(t), a), Last(t))

RECURSIVE SortDescending(_, _)
SortDescending(list, n) ==
    IF n = 0 THEN << >> ELSE InsertDescending(list, SortDescending(list, n - 1), n)

SortedByScore(list) ==
    LET order == SortDescending(list, Len(list))
    IN [k \in 1..Len(list) |-> list[order[k]]]

\* Line 239: event_list[:length], for length >= 0.
Slice(list, length) == SubSeq(list, 1, Min2(length, Len(list)))

\* Lines 215-240.
RankResult(in, decrease_interval, length) ==
    LET event_list == SelectSeq(in.events, LAMBDA e : Survives(e, decrease_interval))
    IN IF event_list # << >> THEN Slice(SortedByScore(event_list), length)
       ELSE event_list

InitRank ==
    /\ \E nb \in 0..MaxBlocks, ne \in 0..MaxRankEvents :
          /\ nb <= 1 \/ ne <= 1
          /\ rank_in \in RankInputs(nb, ne)
    /\ rk = [pc |-> IF rank_in.queue_depth_list = << >> THEN "filter" ELSE "scan",
             i |-> 0,
             decrease_interval |-> << >>]
    /\ tree = Unused /\ stack = Unused /\ metrics = Unused /\ st_pc = "unused"
    /\ qd_in = Unused /\ qd = Unused
    /\ idl = Unused

\* One iteration of the loop of lines 194-213.
ScanStep ==
    /\ rk.pc = "scan"
    /\ LET r == ScanFrom(rank_in, rk.i, rk.decrease_interval)
       IN rk' = [pc |-> IF r.i < Len(rank_in.queue_depth_list) THEN "scan" ELSE "filter",
                 i |-> r.i,
                 decrease_interval |-> r.decrease_interval]
    /\ UNCHANGED << rank_in, selfTimeVars, queueDepthVars, idleVars >>

\* Lines 215-240.  The argument length is read by line 239 alone.
RankFinish ==
    /\ rk.pc = "filter"
    /\ \E length \in 0..(MaxRankEvents + 1) :
          rk' = [pc |-> "done",
                 i |-> rk.i,
                 decrease_interval |-> rk.decrease_interval,
                 length |-> length,
                 event_list |-> RankResult(rank_in, rk.decrease_interval, length)]
    /\ UNCHANGED << rank_in, selfTimeVars, queueDepthVars, idleVars >>

NextRank == ScanStep \/ RankFinish

SpecRank == InitRank /\ [][NextRank]_vars

(***************************************************************************)
(* Properties of rank_events.                                              *)
(***************************************************************************)
\* The events that overlap at least one decrease interval, in the order of
\* self.metrics.
SurvivorList ==
    SelectSeq(rank_in.events,
              LAMBDA e : \E k \in 1..Len(rk.decrease_interval) :
                  Overlaps([start |-> e.start_time_ns, end |-> e.end_time_ns],
                           rk.decrease_interval[k]))

PositionIn(list, e) == CHOOSE k \in 1..Len(list) : list[k] = e

\* C7 as stated: when the survivors are degenerate for standardization (none,
\* one, or no variance in self time or idle fraction), rank_events() returns
\* an empty list.
C7_AsStated ==
    (rk.pc = "done" /\ ScoresAreNan(SurvivorList)) => rk.event_list = << >>

\* C8: rank_events(0) returns an empty list; rank_events(N) returns at most N
\* elements; for N at least the number of survivors it returns the survivors,
\* each once and nothing else, in descending order of score.
C8_RankedSurvivors ==
    rk.pc = "done" =>
        /\ rk.length = 0 => rk.event_list = << >>
        /\ Len(rk.event_list) <= rk.length
        /\ rk.length >= Len(SurvivorList) =>
              /\ Len(rk.event_list) = Len(SurvivorList)
              /\ \A k \in 1..Len(SurvivorList) :
                    \E a \in 1..Len(rk.event_list) : rk.event_list[a] = SurvivorList[k]
              /\ \A a, b \in 1..Len(rk.event_list) :
                    a < b => ~ScoreLess(SurvivorList,
                                        PositionIn(SurvivorList, rk.event_list[a]),
                                        PositionIn(SurvivorList, rk.event_list[b]))

\* Three survivors with scores, returned in another order than the one of
\* self.metrics.
C8_Witness ==
    /\ rk.pc = "done"
    /\ Len(SurvivorList) = 3
    /\ rk.length >= 3
    /\ ~ScoresAreNan(SurvivorList)
    /\ rk.event_list # SurvivorList
    /\ \E a, b \in 1..3 : ScoreLess(SurvivorList, a, b)

\* qd_values, the position of the reversed timeline that starts at time t,
\* and the first position after i where the depth is back at the bottom.
RankValues == qd_values(rank_in)

PositionAt(t) ==
    CHOOSE k \in 1..Len(RankValues) : reversed_queue_depth_list(rank_in)[k].start = t

NextBottom(i) ==
    IF \E m \in (i + 1)..Len(RankValues) : RankValues[m] <= bottom_threashold
    THEN CHOOSE m \in (i + 1)..Len(RankValues) :
             /\ RankValues[m] <= bottom_threashold
             /\ \A n \in (i + 1)..(m - 1) : RankValues[n] > bottom_threashold
    ELSE Len(RankValues) + 1

\* C10 as stated: every decrease interval starts from a position i of depth
\* <= 0 and has a peak of depth >= 4 that is the greatest depth between i and
\* the next position after i of depth <= 0; without a depth >= 4 there is no
\* decrease interval and the result is empty.
C10_AsStated ==
    /\ \A k \in 1..Len(rk.decrease_interval) :
          LET i == PositionAt(rk.decrease_interval[k].end)
              p == PositionAt(rk.decrease_interval[k].start)
          IN /\ RankValues[i] <= bottom_threashold
             /\ RankValues[p] >= top_threashold
             /\ i < p /\ p < NextBottom(i)
             /\ \A m \in (i + 1)..(NextBottom(i) - 1) : RankValues[m] <= RankValues[p]
    /\ (\A m \in 1..Len(RankValues) : RankValues[m] < top_threashold) =>
          /\ rk.decrease_interval = << >>
          /\ rk.pc = "done" => rk.event_list = << >>

=============================================================================
